---------------------------- MODULE Spec2Model ----------------------------
(***************************************************************************)
(* Model of the investment analytics engine of                             *)
(* simple_agent/financial_advisor/analysis_tools.py:                       *)
(*   - the series normalizers _get_stock_prices and _get_mf_navs,          *)
(*   - the metric functions _calculate_cagr, _calculate_volatility,        *)
(*     _calculate_sharpe and _calculate_max_drawdown,                      *)
(*   - the orchestrator analyze_investment.                                *)
(*                                                                         *)
(* Numbers.  Prices are modelled as integers (price units).  The value of  *)
(* a metric is kept exact: a CAGR is  ((end/start)^(p/q) - 1) * 100        *)
(* rounded to 2 decimals.  When the exponent p/q is 1, or the ratio is 0   *)
(* or 1, the rounded value is computed (in hundredths of a percent,        *)
(* val = <<h>>); otherwise the value is carried as the reduced quadruple   *)
(* val = <<end, start, p, q>> that determines it.  Volatility and Sharpe   *)
(* ratio are carried as the sequence of daily returns that determines      *)
(* them.  Floating-point round-off and overflow of the Python float are    *)
(* not modelled.                                                           *)
(*                                                                         *)
(* Spec     is the call of analyze_investment, step by step, against data  *)
(*          sources that may raise, return nothing, or return any frame    *)
(*          of the families below (values may be zero or negative, NAV     *)
(*          and date strings may be unparsable).                           *)
(* SpecCagr is a direct call of _calculate_cagr on a series of finite      *)
(*          non-negative values (up to MaxYears*252 + MaxSlack points).    *)
(***************************************************************************)
EXTENDS Integers, Sequences, FiniteSets, TLC

VARIABLES
    \* ---- one call of analyze_investment -------------------------------
    pc,               \* position of the call inside analyze_investment
    identifier,       \* argument
    investment_type,  \* argument
    prices,           \* local `prices`: None or the normalized series
    label,            \* local `label`
    metrics,          \* locals cagr_1y .. max_drawdown (results of the six calls)
    result,           \* the value returned to the caller
    escaped,          \* TRUE iff an exception left analyze_investment
    pending,          \* exception raised inside the try block, not yet handled
    fetches,          \* adapter fetches performed during the call (names)
    invoked,          \* metric functions invoked during the call (names)
    raw,              \* what the data source delivered to the fetch of this call
    \* ---- a direct call of the pure function _calculate_cagr -----------
    c_pc,             \* "off" | "called" | "returned"
    c_prices,         \* argument `prices` (a sequence of values)
    c_years,          \* argument `years`
    c_result,         \* returned value (or the exception raised)
    \* ---- a direct call of the pure function _calculate_max_drawdown ---
    d_pc,             \* "off" | "called" | "returned"
    d_prices,         \* argument `prices` (a sequence of values)
    d_result,         \* returned value
    \* ---- the lazily created Tavily clients (agent.py, mf_tools.py) -----
    t_env,            \* TRUE iff TAVILY_API_KEY is set in the environment
    t_client,         \* per module: the global _tavily_client
    t_made,           \* per module: number of TavilyClient objects constructed
    t_pc,             \* per thread: position inside _get_tavily
    t_mod,            \* per thread: the module whose _get_tavily it runs
    t_obj,            \* per thread: the client it has constructed, not yet stored
    t_ret,            \* per thread: what its last call returned or raised
    t_overlap         \* per module (history): two calls have been between the
                      \* test of the handle and its assignment at the same time

vars == <<pc, identifier, investment_type, prices, label, metrics, result,
          escaped, pending, fetches, invoked, raw,
          c_pc, c_prices, c_years, c_result,
          d_pc, d_prices, d_result,
          t_env, t_client, t_made, t_pc, t_mod, t_obj, t_ret, t_overlap>>

callVars == <<pc, identifier, investment_type, prices, label, metrics, result,
              escaped, pending, fetches, invoked, raw>>

cagrVars == <<c_pc, c_prices, c_years, c_result>>

drawdownVars == <<d_pc, d_prices, d_result>>

tavilyVars == <<t_env, t_client, t_made, t_pc, t_mod, t_obj, t_ret, t_overlap>>

-----------------------------------------------------------------------------
(* Program constants *)

\* trading days per year, the literal 252 of _calculate_cagr
TRADING_DAYS == 252

\* the request gate of analyze_investment: len(prices) < 10
MIN_POINTS == 10

\* the threshold of _calculate_volatility and _calculate_sharpe: len(prices) < 30
MIN_RETURNS_POINTS == 30

(* Bounds of the model *)

\* horizons passed to _calculate_cagr in direct calls: 1..MaxYears
MaxYears == 5

\* series lengths around each window size years*252: +- MaxSlack
MaxSlack == 1

\* short series lengths 0..MaxShort in direct calls
MaxShort == 3

\* series lengths 0..MaxPoints delivered by the adapters to analyze_investment
MaxPoints == 31

\* direct calls of _calculate_max_drawdown: every series of 0..MaxDdLen values
\* in 0..MaxPrice
MaxDdLen == 4

MaxPrice == 3

\* threads calling _get_tavily concurrently
MaxThreads == 2

\* TavilyClient objects constructed in one run of the model
MaxClients == 3

-----------------------------------------------------------------------------
(* Values *)

\* Python's None, and a present value
None == [isNone |-> TRUE, v |-> <<>>]

Some(x) == [isNone |-> FALSE, v |-> x]

\* What a metric function produces: None, a number, or a raised exception.
RNone == [kind |-> "None", val |-> <<>>, exc |-> ""]

RNum(val) == [kind |-> "num", val |-> val, exc |-> ""]

RRaise(exc) == [kind |-> "raise", val |-> <<>>, exc |-> exc]

Abs(x) == IF x < 0 THEN -x ELSE x

RECURSIVE GCD(_, _)
GCD(a, b) == IF b = 0 THEN Abs(a) ELSE GCD(Abs(b), Abs(a) % Abs(b))

\* round(n/d) to the nearest integer, ties to even (Python's round), d > 0
RoundDiv(n, d) ==
    LET q == n \div d
        r == n % d
    IN  IF 2 * r < d THEN q
        ELSE IF 2 * r > d THEN q + 1
        ELSE IF q % 2 = 0 THEN q ELSE q + 1

\* prices.iloc[-k:] : the last k values (the whole series when k = 0 or k >= len)
IlocTail(S, k) ==
    IF k = 0 \/ k >= Len(S) THEN S ELSE SubSeq(S, Len(S) - k + 1, Len(S))

-----------------------------------------------------------------------------
(* _calculate_cagr *)

\* round(((end_val / start_val) ** (1 / actual_years) - 1) * 100, 2)
\* with actual_years = yn/yd.  Python floats: a division by zero raises
\* ZeroDivisionError; a negative base with a non-integer exponent gives a
\* complex number, on which round() raises TypeError.
CagrValue(end_val, start_val, yn, yd) ==
    IF start_val = 0 \/ yn = 0 THEN RRaise("ZeroDivisionError")
    ELSE
      LET g  == GCD(yn, yd)
          p  == yd \div g          \* exponent 1/actual_years = p/q
          q  == yn \div g
          h  == GCD(end_val, start_val)
          e  == end_val \div h     \* ratio end/start = e/s, s > 0 here
          s  == start_val \div h
      IN  IF e < 0 /\ q # 1 THEN RRaise("TypeError")
          ELSE IF e = 0 THEN RNum(<<-10000>>)
          ELSE IF e = s THEN RNum(<<0>>)
          ELSE IF p = 1 /\ q = 1 THEN RNum(<<RoundDiv(10000 * (e - s), s)>>)
          ELSE RNum(<<e, s, p, q>>)

\* variant: the series is never cut to its last N points (start is always S[0])
CagrNoSlice(prices_, years) ==
    IF prices_.isNone \/ Len(prices_.v) < 2 THEN RNone
    ELSE
      LET S == prices_.v
          trading_days == years * TRADING_DAYS
          short == Len(S) < trading_days
          start_val == S[1]
          end_val == S[Len(S)]
      IN  IF start_val <= 0 THEN RNone
          ELSE IF short THEN CagrValue(end_val, start_val, Len(S), TRADING_DAYS)
          ELSE CagrValue(end_val, start_val, years, 1)

\* variant: no fallback to len/252, the requested years are always used
CagrNoFallback(prices_, years) ==
    IF prices_.isNone \/ Len(prices_.v) < 2 THEN RNone
    ELSE
      LET S == prices_.v
          trading_days == years * TRADING_DAYS
          window == IlocTail(S, trading_days)
          start_val == window[1]
          end_val == window[Len(window)]
      IN  IF start_val <= 0 THEN RNone
          ELSE CagrValue(end_val, start_val, years, 1)

\* variant: the guard is start_val < 0 instead of start_val <= 0
CagrStrictGuard(prices_, years) ==
    IF prices_.isNone \/ Len(prices_.v) < 2 THEN RNone
    ELSE
      LET S == prices_.v
          trading_days == years * TRADING_DAYS
          short == Len(S) < trading_days
          window == IF short THEN S ELSE IlocTail(S, trading_days)
          start_val == window[1]
          end_val == window[Len(window)]
      IN  IF start_val < 0 THEN RNone
          ELSE IF short THEN CagrValue(end_val, start_val, Len(S), TRADING_DAYS)
          ELSE CagrValue(end_val, start_val, years, 1)

_calculate_cagr(prices_, years) ==
    IF prices_.isNone \/ Len(prices_.v) < 2 THEN RNone
    ELSE
      LET S == prices_.v
          trading_days == years * TRADING_DAYS
          short == Len(S) < trading_days
          \* actual_years = len(prices)/252 when short, else years
          window == IF short THEN S ELSE IlocTail(S, trading_days)
          start_val == window[1]
          end_val == window[Len(window)]
      IN  IF start_val <= 0 THEN RNone
          ELSE IF short THEN CagrValue(end_val, start_val, Len(S), TRADING_DAYS)
          ELSE CagrValue(end_val, start_val, years, 1)

-----------------------------------------------------------------------------
(* The other metric functions.  They take the values of the series. *)

RNaN == [kind |-> "nan", val |-> <<>>, exc |-> ""]

RNegInf == [kind |-> "-inf", val |-> <<>>, exc |-> ""]

\* one entry of prices.pct_change(): cur/prev - 1 as the reduced fraction n/d
\* (d > 0); a division by zero gives inf, 0/0 gives NaN (no exception: these
\* are numpy floats)
PctChange(prev, cur) ==
    IF prev = 0
    THEN [k |-> IF cur = 0 THEN "nan" ELSE "inf", n |-> 0, d |-> 1]
    ELSE LET g == GCD(cur - prev, prev)
             sgn == IF prev < 0 THEN -1 ELSE 1
         IN  [k |-> "num", n |-> sgn * ((cur - prev) \div g), d |-> sgn * (prev \div g)]

\* prices.pct_change().dropna(): the first entry (NaN) and every NaN are dropped
DailyReturns(S) ==
    SelectSeq([i \in 1..(Len(S) - 1) |-> PctChange(S[i], S[i + 1])],
              LAMBDA r : r.k # "nan")

\* daily_returns.std() (ddof = 1), as far as the code looks at it:
\* "nan" (a single return, or an infinite one), "zero" (all returns equal) or
\* "pos"
StdKind(R) ==
    IF Len(R) < 2 \/ \E i \in 1..Len(R) : R[i].k = "inf" THEN "nan"
    ELSE IF \A i \in 1..Len(R) : R[i] = R[1] THEN "zero"
    ELSE "pos"

\* the returns n1/d1, n2/d2, .. as the sequence <<n1, d1, n2, d2, ..>>
Flatten(R) ==
    [k \in 1..(2 * Len(R)) |->
        IF k % 2 = 1 THEN R[(k + 1) \div 2].n ELSE R[k \div 2].d]

\* variant: the 30-point threshold is collapsed into the 10-point gate
VolatilityAtGate(prices_) ==
    IF prices_.isNone \/ Len(prices_.v) < MIN_POINTS THEN RNone
    ELSE
      LET daily_returns == DailyReturns(prices_.v)
      IN  IF daily_returns = <<>> THEN RNone
          ELSE CASE StdKind(daily_returns) = "nan" -> RNaN
                 [] StdKind(daily_returns) = "zero" -> RNum(<<0>>)
                 [] OTHER -> RNum(Flatten(daily_returns))

_calculate_volatility(prices_) ==
    IF prices_.isNone \/ Len(prices_.v) < MIN_RETURNS_POINTS THEN RNone
    ELSE
      LET daily_returns == DailyReturns(prices_.v)
      IN  IF daily_returns = <<>> THEN RNone
          ELSE CASE StdKind(daily_returns) = "nan" -> RNaN
                 [] StdKind(daily_returns) = "zero" -> RNum(<<0>>)
                 \* std * sqrt(252) * 100: determined by the returns
                 [] OTHER -> RNum(Flatten(daily_returns))

_calculate_sharpe(prices_) ==
    IF prices_.isNone \/ Len(prices_.v) < MIN_RETURNS_POINTS THEN RNone
    ELSE
      LET daily_returns == DailyReturns(prices_.v)
      IN  IF daily_returns = <<>> \/ StdKind(daily_returns) = "zero" THEN RNone
          ELSE CASE StdKind(daily_returns) = "nan" -> RNaN
                 \* (mean*252 - 0.07) / (std*sqrt(252)): determined by the returns
                 [] OTHER -> RNum(Flatten(daily_returns))

\* the largest of S[lo..hi] (lo <= hi)
RECURSIVE RangeMax(_, _, _)
RangeMax(S, lo, hi) ==
    IF lo = hi THEN S[lo]
    ELSE LET mid == (lo + hi) \div 2
             a == RangeMax(S, lo, mid)
             b == RangeMax(S, mid + 1, hi)
         IN  IF a >= b THEN a ELSE b

SetMin(A) == CHOOSE x \in A : \A y \in A : x <= y

\* one entry of (prices - cumulative_max) / cumulative_max, times 100 and
\* rounded to 2 decimals (in hundredths of a percent)
Drawdown(value, running_max) ==
    IF running_max = 0
    THEN [k |-> IF value = 0 THEN "nan" ELSE "-inf", h |-> 0]
    ELSE IF running_max > 0
    THEN [k |-> "num", h |-> RoundDiv(10000 * (value - running_max), running_max)]
    ELSE [k |-> "num", h |-> RoundDiv(10000 * (running_max - value), -running_max)]

_calculate_max_drawdown(prices_) ==
    IF prices_.isNone \/ Len(prices_.v) < 2 THEN RNone
    ELSE
      LET S == prices_.v
          cumulative_max == [i \in 1..Len(S) |-> RangeMax(S, 1, i)]
          drawdowns == [i \in 1..Len(S) |-> Drawdown(S[i], cumulative_max[i])]
          nums == {drawdowns[i].h : i \in {j \in 1..Len(S) : drawdowns[j].k = "num"}}
      IN  \* drawdowns.min() skips NaN; it is NaN when every entry is NaN
          IF \E i \in 1..Len(S) : drawdowns[i].k = "-inf" THEN RNegInf
          ELSE IF nums = {} THEN RNaN
          ELSE RNum(<<SetMin(nums)>>)

-----------------------------------------------------------------------------
(* The data sources and the normalizers *)

\* A row delivered by a data source: the index entry and the value cell.
\* Mutual-fund rows carry strings: a date string in %d-%m-%Y (day number
\* `day`) or a string that is no such date; a NAV string that float() parses
\* to a number, one that it parses to NaN ("nan"), or one that it rejects
\* ("abc").  Equity rows carry a Timestamp and a float.
DateOk(day) == [ok |-> TRUE, day |-> day]

DateBad == [ok |-> FALSE, day |-> 0]

CellNum(v) == [txt |-> "num", v |-> v]

CellNaN == [txt |-> "nan", v |-> 0]

CellBad == [txt |-> "bad", v |-> 0]

\* What a fetch does: it raises, returns None, or returns a frame of rows.
FetchRaises == [kind |-> "raise", rows |-> <<>>]

FetchNone == [kind |-> "none", rows |-> <<>>]

Frame(rows) == [kind |-> "frame", rows |-> rows]

\* pd.to_datetime(.., errors="coerce"): an unparsable date string becomes NaT
\* (ok = FALSE); the row stays
Point(row) == [ts |-> row.date, val |-> row.nav.v]

ToPoints(rows) == [i \in 1..Len(rows) |-> Point(rows[i])]

Values(series) == [i \in 1..Len(series) |-> series[i].val]

\* ValuesOf(prices): the values of an optional series
ValuesOf(prices_) == IF prices_.isNone THEN None ELSE Some(Values(prices_.v))

\* index order of sort_index(): ascending, NaT last
Before(a, b) == a.ts.ok /\ (~b.ts.ok \/ a.ts.day < b.ts.day)

RECURSIVE InsertSorted(_, _)
InsertSorted(x, s) ==
    IF s = <<>> THEN <<x>>
    ELSE IF Before(x, Head(s)) THEN <<x>> \o s
    ELSE <<Head(s)>> \o InsertSorted(x, Tail(s))

\* nav_series.sort_index(); rows with equal index keep their order here (the
\* order pandas gives them is unspecified)
RECURSIVE SortIndex(_)
SortIndex(s) ==
    IF s = <<>> THEN <<>>
    ELSE InsertSorted(s[Len(s)], SortIndex(SubSeq(s, 1, Len(s) - 1)))

\* nav_series.dropna(): drops the rows whose VALUE is NaN (the index is not
\* looked at)
DropNa(rows) == SelectSeq(rows, LAMBDA r : r.nav.txt # "nan")

_get_stock_prices(fetched) ==
    IF fetched.kind = "raise" THEN None          \* except Exception: return None
    ELSE IF fetched.rows = <<>> THEN None         \* hist.empty
    ELSE Some(ToPoints(fetched.rows))             \* hist["Close"]

\* variant: sort_index() is left out
MfNavsNoSort(fetched) ==
    IF fetched.kind = "raise" THEN None
    ELSE IF fetched.kind = "none" \/ fetched.rows = <<>> THEN None
    ELSE IF \E i \in 1..Len(fetched.rows) : fetched.rows[i].nav.txt = "bad" THEN None
    ELSE Some(ToPoints(DropNa(fetched.rows)))

_get_mf_navs(fetched) ==
    IF fetched.kind = "raise" THEN None          \* except Exception: return None
    ELSE IF fetched.kind = "none" \/ fetched.rows = <<>> THEN None
    \* history["nav"].astype(float) raises ValueError on a string that is no
    \* number; the except clause returns None
    ELSE IF \E i \in 1..Len(fetched.rows) : fetched.rows[i].nav.txt = "bad" THEN None
    ELSE Some(SortIndex(ToPoints(DropNa(fetched.rows))))

-----------------------------------------------------------------------------
(* analyze_investment *)

\* an f-string is modelled as the sequence of its pieces
InvalidTypeMsg(t) ==
    <<"Invalid investment_type '", t, "'. Use 'stock' or 'mutual_fund'.">>

\* variant: the identifier is not interpolated
InsufficientMsgNoId(ident) ==
    <<"Insufficient historical data. Verify the identifier and try again.">>

\* variant: the number of points found is interpolated as well
InsufficientMsgWithCount(ident) ==
    <<"Insufficient historical data for '", ident, "': ",
      IF prices.isNone THEN "no" ELSE ToString(Len(prices.v)),
      " points found. Verify the identifier and try again.">>

InsufficientMsg(ident) ==
    <<"Insufficient historical data for '", ident,
      "'. Verify the identifier and try again.">>

\* variant: the identifier is not interpolated
AnalysisFailedMsgNoId(ident, e) == <<"Analysis failed: ", e>>

AnalysisFailedMsg(ident, e) == <<"Analysis failed for '", ident, "': ", e>>

ErrorReport(msg) == [error |-> msg]

\* str(e) of the exceptions the try block can raise
ExcText(exc) ==
    CASE exc = "TypeError" -> "type complex doesn't define __round__ method"
      [] exc = "ValueError" -> "NaTType does not support strftime"
      [] exc = "ZeroDivisionError" -> "float division by zero"
      [] OTHER -> exc

\* variant: `except ValueError`
CatchesValueErrorOnly(exc) == exc = "ValueError"

\* `except Exception`: every exception raised in the try block is an Exception
Catches(exc) == exc \in {"TypeError", "ValueError", "ZeroDivisionError"}

\* variant: anything that is not 'mutual_fund' is taken for a stock
SelectorDefaultsToStock(t) ==
    IF t = "mutual_fund" THEN "mftool" ELSE "yfinance"

\* the if / elif / else on investment_type: which data source is fetched
Selector(t) ==
    IF t = "stock" THEN "yfinance"
    ELSE IF t = "mutual_fund" THEN "mftool"
    ELSE "invalid"

\* variant: the gate is at 2 points
GateAtTwoPoints(prices_) == prices_.isNone \/ Len(prices_.v) < 2

\* `if prices is None or len(prices) < 10`
GateFails(prices_) == prices_.isNone \/ Len(prices_.v) < MIN_POINTS

\* the six metric calls, in the order of the code
MetricNames ==
    <<"cagr_1y", "cagr_3y", "cagr_5y", "volatility", "sharpe", "max_drawdown">>

MetricCall(i, prices_) ==
    CASE i = 1 -> _calculate_cagr(ValuesOf(prices_), 1)
      [] i = 2 -> _calculate_cagr(ValuesOf(prices_), 3)
      [] i = 3 -> _calculate_cagr(ValuesOf(prices_), 5)
      [] i = 4 -> _calculate_volatility(ValuesOf(prices_))
      [] i = 5 -> _calculate_sharpe(ValuesOf(prices_))
      [] i = 6 -> _calculate_max_drawdown(ValuesOf(prices_))

\* the string "Insufficient data"
Marker == [kind |-> "Insufficient data", val |-> <<>>, exc |-> ""]

\* `x if x is not None else "Insufficient data"`
Slot(r) == IF r.kind = "None" THEN Marker ELSE r

\* Timestamp.strftime("%Y-%m-%d")
Strftime(ts) == <<"%Y-%m-%d", ts.day>>

ReportKeys ==
    {"identifier", "investment_type", "label", "data_points", "data_start_date",
     "data_end_date", "latest_value", "metrics", "assumptions", "disclaimer"}

MetricKeys ==
    {"cagr_1y_percent", "cagr_3y_percent", "cagr_5y_percent",
     "annualized_volatility_percent", "sharpe_ratio", "max_drawdown_percent"}

\* the key of the report's slot for the i-th metric call
MetricKey(i) ==
    <<"cagr_1y_percent", "cagr_3y_percent", "cagr_5y_percent",
      "annualized_volatility_percent", "sharpe_ratio", "max_drawdown_percent">>[i]

\* the `result` dictionary; m are the six metric results
Report(ident, t, lbl, prices_, m) ==
    [identifier |-> ident,
     investment_type |-> t,
     label |-> lbl,
     data_points |-> Len(prices_.v),
     data_start_date |-> Strftime(prices_.v[1].ts),
     data_end_date |-> Strftime(prices_.v[Len(prices_.v)].ts),
     \* round(float(prices.iloc[-1]), 2), in hundredths
     latest_value |-> 100 * prices_.v[Len(prices_.v)].val,
     metrics |-> [cagr_1y_percent |-> Slot(m[1]),
                  cagr_3y_percent |-> Slot(m[2]),
                  cagr_5y_percent |-> Slot(m[3]),
                  annualized_volatility_percent |-> Slot(m[4]),
                  sharpe_ratio |-> Slot(m[5]),
                  max_drawdown_percent |-> Slot(m[6])],
     \* RISK_FREE_RATE * 100 and the literal 252
     assumptions |-> [risk_free_rate_percent |-> 7,
                      trading_days_per_year |-> TRADING_DAYS],
     disclaimer |-> "Past performance is not indicative of future results."]

\* no value has been returned yet
NoResult == [unset |-> TRUE]

\* no fetch has been made yet
NoFetch == [kind |-> "nofetch", rows |-> <<>>]

-----------------------------------------------------------------------------
(* What the data sources may deliver *)

\* the value at index i (1-based) of a series of the given shape:
\*   flat  constant 100
\*   rise  100 + i, strictly ascending
\*   ramp  rises linearly from 100 to 200 over the first 252 points and is
\*         flat afterwards; the unit is 1/251, so that every value
\*         100 + 100*(i-1)/251 is an integer: 25100, 25200, .., 50200
BaseValue(shape, i) ==
    CASE shape = "flat" -> 100
      [] shape = "rise" -> 100 + i
      [] shape = "ramp" ->
            IF i <= TRADING_DAYS
            THEN 100 * (TRADING_DAYS - 1) + 100 * (i - 1)
            ELSE 200 * (TRADING_DAYS - 1)

\* a series of n values of the given shape whose value at index `spot`
\* (none when spot = 0) is replaced by spotval
GenValues(n, shape, spot, spotval) ==
    [i \in 1..n |-> IF i = spot THEN spotval ELSE BaseValue(shape, i)]

Identifiers == {"RELIANCE.NS", "119597"}

InvestmentTypes == {"stock", "mutual_fund", "crypto"}

CallShapes == {"flat", "rise"}

\* a value replaced at one point of the series: zero, or a negative value
SpotValues == {0, -5}

\* the first or the last point (0: no point is replaced)
CallSpots(n) == {0} \cup ({1, n} \cap (1..n))

\* equity history: one row per trading day 1..n, oldest first
StockRows(values) ==
    [i \in 1..Len(values) |-> [date |-> DateOk(i), nav |-> CellNum(values[i])]]

\* mutual-fund history: one row per day 1..n, newest first
MfRows(values) ==
    [j \in 1..Len(values) |->
        [date |-> DateOk(Len(values) - j + 1),
         nav |-> CellNum(values[Len(values) - j + 1])]]

Defects == {"none", "badnav", "nannav", "baddate", "dupdate"}

\* a row of the frame damaged at position pos:
\*   badnav   its NAV string is no number          nannav  its NAV string is "nan"
\*   baddate  its date string is no date           dupdate it repeats a neighbour's date
Damage(rows, defect, pos) ==
    LET other == IF pos < Len(rows) THEN pos + 1 ELSE pos - 1
    IN  CASE defect = "none" -> rows
          [] defect = "badnav" -> [rows EXCEPT ![pos].nav = CellBad]
          [] defect = "nannav" -> [rows EXCEPT ![pos].nav = CellNaN]
          [] defect = "baddate" -> [rows EXCEPT ![pos].date = DateBad]
          [] defect = "dupdate" ->
                IF Len(rows) < 2 THEN rows
                ELSE [rows EXCEPT ![pos].date = rows[other].date]

\* the value series of 0..MaxPoints points the data sources may hold
SeriesInputs ==
    UNION {{GenValues(n, shape, spot, sv) :
                shape \in CallShapes, spot \in CallSpots(n), sv \in SpotValues} :
           n \in 0..MaxPoints}

\* series about as long as the 1-year and the 3-year window
LongLens == {y * TRADING_DAYS + d : y \in {1, 3}, d \in (-MaxSlack)..MaxSlack}

LongInputs == {GenValues(n, "rise", 0, 0) : n \in LongLens}

\* Ticker.history(): raises, or a frame (empty when there is no data)
StockFetches ==
    {FetchRaises} \cup {Frame(StockRows(values)) : values \in SeriesInputs \cup LongInputs}

\* Mftool.get_scheme_historical_nav(): raises, None, or a frame
MfFetches ==
    {FetchRaises, FetchNone}
    \cup UNION {{Frame(Damage(MfRows(values), defect, pos)) :
                    defect \in Defects, pos \in {1, Len(values)} \cap (1..Len(values))} :
                values \in SeriesInputs}
    \cup {Frame(<<>>)}

-----------------------------------------------------------------------------
(* The steps of one call of analyze_investment *)

\* no call is in progress
CallIdle ==
    /\ pc = "idle"
    /\ identifier = ""
    /\ investment_type = ""
    /\ prices = None
    /\ label = <<>>
    /\ metrics = <<>>
    /\ result = NoResult
    /\ escaped = FALSE
    /\ pending = ""
    /\ fetches = <<>>
    /\ invoked = <<>>
    /\ raw = NoFetch

CagrOff ==
    /\ c_pc = "off"
    /\ c_prices = <<>>
    /\ c_years = 0
    /\ c_result = RNone

DrawdownOff ==
    /\ d_pc = "off"
    /\ d_prices = <<>>
    /\ d_result = RNone

\* modules that define _get_tavily and a global _tavily_client
Modules == {"agent", "mf_tools"}

\* threads that may run tool functions at the same time: 1..MaxThreads
Threads == 1..MaxThreads

\* None
NoClient == [mod |-> "None", n |-> 0]

\* the n-th TavilyClient object constructed by module m
Client(m, n) == [mod |-> m, n |-> n]

\* raise RuntimeError("TAVILY_API_KEY is not set in the environment.")
Raised == [mod |-> "RuntimeError", n |-> 0]

\* both globals are None, nothing has been constructed, no call is running
TavilyFresh ==
    /\ t_client = [m \in Modules |-> NoClient]
    /\ t_made = [m \in Modules |-> 0]
    /\ t_mod = [th \in Threads |-> "agent"]
    /\ t_obj = [th \in Threads |-> NoClient]
    /\ t_ret = [th \in Threads |-> NoClient]
    /\ t_overlap = [m \in Modules |-> FALSE]

TavilyOff ==
    /\ TavilyFresh
    /\ t_env = FALSE
    /\ t_pc = [th \in Threads |-> "off"]

Init == CallIdle /\ CagrOff /\ DrawdownOff /\ TavilyOff

\* the caller calls analyze_investment(ident, t); the try block is entered
Call(ident, t) ==
    /\ pc \in {"idle", "returned"}
    /\ pc' = "try"
    /\ identifier' = ident
    /\ investment_type' = t
    /\ prices' = None
    /\ label' = <<>>
    /\ metrics' = <<>>
    /\ result' = NoResult
    /\ escaped' = FALSE
    /\ pending' = ""
    /\ fetches' = <<>>
    /\ invoked' = <<>>
    /\ raw' = NoFetch
    /\ UNCHANGED <<cagrVars, drawdownVars, tavilyVars>>

\* investment_type == "stock": prices = _get_stock_prices(identifier, years=5)
FetchStock ==
    /\ pc = "try"
    /\ Selector(investment_type) = "yfinance"
    /\ \E fetched \in StockFetches :
          /\ raw' = fetched
          /\ prices' = _get_stock_prices(fetched)
    /\ fetches' = Append(fetches, "yfinance")
    /\ label' = <<"Stock: ", identifier>>
    /\ pc' = "gate"
    /\ UNCHANGED <<identifier, investment_type, metrics, result, escaped, pending, invoked>>
    /\ UNCHANGED <<cagrVars, drawdownVars, tavilyVars>>

\* investment_type == "mutual_fund": prices = _get_mf_navs(identifier)
FetchMf ==
    /\ pc = "try"
    /\ Selector(investment_type) = "mftool"
    /\ \E fetched \in MfFetches :
          /\ raw' = fetched
          /\ prices' = _get_mf_navs(fetched)
    /\ fetches' = Append(fetches, "mftool")
    /\ label' = <<"Mutual Fund (scheme code: ", identifier, ")">>
    /\ pc' = "gate"
    /\ UNCHANGED <<identifier, investment_type, metrics, result, escaped, pending, invoked>>
    /\ UNCHANGED <<cagrVars, drawdownVars, tavilyVars>>

\* else: return {"error": "Invalid investment_type ..."}
RejectType ==
    /\ pc = "try"
    /\ Selector(investment_type) = "invalid"
    /\ result' = ErrorReport(InvalidTypeMsg(investment_type))
    /\ pc' = "returned"
    /\ UNCHANGED <<identifier, investment_type, prices, label, metrics, escaped,
                   pending, fetches, invoked, raw>>
    /\ UNCHANGED <<cagrVars, drawdownVars, tavilyVars>>

\* if prices is None or len(prices) < 10: return {"error": "Insufficient ..."}
Gate ==
    /\ pc = "gate"
    /\ IF GateFails(prices)
       THEN /\ result' = ErrorReport(InsufficientMsg(identifier))
            /\ pc' = "returned"
       ELSE /\ result' = result
            /\ pc' = "metrics"
    /\ UNCHANGED <<identifier, investment_type, prices, label, metrics, escaped,
                   pending, fetches, invoked, raw>>
    /\ UNCHANGED <<cagrVars, drawdownVars, tavilyVars>>

\* the index of the first of the six metric calls that raises (7: none does)
FirstRaise(prices_) ==
    IF \E i \in 1..6 : MetricCall(i, prices_).kind = "raise"
    THEN SetMin({i \in 1..6 : MetricCall(i, prices_).kind = "raise"})
    ELSE 7

\* cagr_1y = .. ; cagr_3y = .. ; .. ; max_drawdown = ..   A call that raises
\* ends the sequence: the exception goes to the except clause.
ComputeMetrics ==
    /\ pc = "metrics"
    /\ LET k == FirstRaise(prices)
       IN  IF k = 7
           THEN /\ metrics' = [i \in 1..6 |-> MetricCall(i, prices)]
                /\ invoked' = MetricNames
                /\ pending' = pending
                /\ pc' = "assemble"
           ELSE /\ metrics' = [i \in 1..(k - 1) |-> MetricCall(i, prices)]
                /\ invoked' = SubSeq(MetricNames, 1, k)
                /\ pending' = MetricCall(k, prices).exc
                /\ pc' = "except"
    /\ UNCHANGED <<identifier, investment_type, prices, label, result, escaped,
                   fetches, raw>>
    /\ UNCHANGED <<cagrVars, drawdownVars, tavilyVars>>

\* result = {...}; return result.   prices.index[0].strftime(..) and
\* prices.index[-1].strftime(..) raise ValueError on NaT.
Assemble ==
    /\ pc = "assemble"
    /\ IF prices.v[1].ts.ok /\ prices.v[Len(prices.v)].ts.ok
       THEN /\ result' = Report(identifier, investment_type, label, prices, metrics)
            /\ pending' = pending
            /\ pc' = "returned"
       ELSE /\ result' = result
            /\ pending' = "ValueError"
            /\ pc' = "except"
    /\ UNCHANGED <<identifier, investment_type, prices, label, metrics, escaped,
                   fetches, invoked, raw>>
    /\ UNCHANGED <<cagrVars, drawdownVars, tavilyVars>>

\* except Exception as e: return {"error": "Analysis failed for ..."}
HandleException ==
    /\ pc = "except"
    /\ IF Catches(pending)
       THEN /\ result' = ErrorReport(AnalysisFailedMsg(identifier, ExcText(pending)))
            /\ escaped' = FALSE
       ELSE /\ result' = result
            /\ escaped' = TRUE
    /\ pending' = ""
    /\ pc' = "returned"
    /\ UNCHANGED <<identifier, investment_type, prices, label, metrics,
                   fetches, invoked, raw>>
    /\ UNCHANGED <<cagrVars, drawdownVars, tavilyVars>>

Next ==
    \/ \E ident \in Identifiers : \E t \in InvestmentTypes : Call(ident, t)
    \/ FetchStock
    \/ FetchMf
    \/ RejectType
    \/ Gate
    \/ ComputeMetrics
    \/ Assemble
    \/ HandleException

Spec == Init /\ [][Next]_vars

-----------------------------------------------------------------------------
(* Properties of analyze_investment and of the normalizers (checked under Spec) *)

IsErrorReport(r) == DOMAIN r = {"error"}

\* the message has s among its pieces
Mentions(msg, s) == \E i \in 1..Len(msg) : msg[i] = s

\* the message opens with the text of a cause
StatesCause(msg) ==
    msg[1] \in {"Insufficient historical data for '", "Analysis failed for '",
                "Invalid investment_type '"}

\* a fetch has been made and the normalized series has at least 10 points
GatePassed == fetches # <<>> /\ ~prices.isNone /\ Len(prices.v) >= MIN_POINTS

\* C1: whatever the identifier, when the equity or mutual-fund data source
\* raises during the fetch, no exception leaves analyze_investment, no metric
\* is computed, and the value returned is an error report whose message holds
\* the identifier and states a cause.
C1_AdapterFaultIsErrorReport ==
    raw = FetchRaises =>
        /\ ~escaped
        /\ pc \in {"gate", "returned"}
        /\ pc = "returned" =>
              /\ IsErrorReport(result)
              /\ Mentions(result.error, identifier)
              /\ StatesCause(result.error)

\* the mutual-fund fetch raised and the call returned the error report
C1_Witness ==
    /\ pc = "returned"
    /\ raw = FetchRaises
    /\ fetches = <<"mftool">>
    /\ identifier = "119597"
    /\ result = ErrorReport(<<"Insufficient historical data for '", "119597",
                              "'. Verify the identifier and try again.">>)

\* C2 (as claimed): once the 10-point gate is passed (and every date of the
\* series is a date), the call returns a success report in which the slot of
\* each metric whose computation failed - it returned None or it raised -
\* holds the marker and every other slot holds the computed value.
C2_AsClaimed ==
    (pc = "returned" /\ GatePassed /\ \A i \in 1..Len(prices.v) : prices.v[i].ts.ok) =>
        /\ DOMAIN result = ReportKeys
        /\ \A i \in 1..6 :
              result.metrics[MetricKey(i)] =
                  IF MetricCall(i, prices).kind \in {"None", "raise"}
                  THEN Marker
                  ELSE MetricCall(i, prices)

\* C3: when the normalized series is absent or has fewer than 10 points the
\* call returns an error report naming the identifier and no metric function
\* has been invoked; metric functions are invoked only once the gate is passed.
C3_GateBeforeMetrics ==
    /\ invoked # <<>> => (GatePassed /\ pc \in {"assemble", "except", "returned"})
    /\ (pc = "returned" /\ fetches # <<>> /\ (prices.isNone \/ Len(prices.v) < MIN_POINTS)) =>
          /\ invoked = <<>>
          /\ metrics = <<>>
          /\ IsErrorReport(result)
          /\ Mentions(result.error, identifier)

\* a 5-point series: an error report, no metric invoked
C3_Witness ==
    /\ pc = "returned"
    /\ ~prices.isNone /\ Len(prices.v) = 5
    /\ invoked = <<>>
    /\ result = ErrorReport(InsufficientMsg(identifier))

\* C4: when investment_type is neither 'stock' nor 'mutual_fund', no fetch is
\* made at any point of the call, and the step that follows the entry of the
\* call returns an error report.
C4_InvalidTypeNoFetch ==
    (pc # "idle" /\ investment_type \notin {"stock", "mutual_fund"}) =>
        /\ fetches = <<>>
        /\ raw = NoFetch
        /\ pc \in {"try", "returned"}
        /\ pc = "returned" => IsErrorReport(result)

C4_Witness ==
    /\ pc = "returned"
    /\ investment_type = "crypto"
    /\ fetches = <<>>
    /\ result = ErrorReport(<<"Invalid investment_type '", "crypto",
                              "'. Use 'stock' or 'mutual_fund'.">>)

\* C5: a call always returns a value (no exception leaves it), and the value
\* is either an error report holding only 'error', or a report holding every
\* provenance field, the six metric slots - each a number or the marker - and
\* the assumptions, and no 'error'.  Nothing is returned before that.
C5_TwoShapes ==
    /\ pc # "returned" => (result = NoResult /\ ~escaped)
    /\ pc = "returned" =>
          /\ ~escaped
          /\ \/ DOMAIN result = {"error"}
             \/ /\ DOMAIN result = ReportKeys
                /\ DOMAIN result.metrics = MetricKeys
                /\ DOMAIN result.assumptions =
                      {"risk_free_rate_percent", "trading_days_per_year"}
                /\ \A k \in MetricKeys :
                      result.metrics[k].kind \in {"num", "nan", "-inf", "Insufficient data"}

\* a complete report of a 10-point series: numbers and markers side by side
C5_Witness ==
    /\ pc = "returned"
    /\ DOMAIN result = ReportKeys
    /\ result.data_points = MIN_POINTS
    /\ result.metrics.cagr_1y_percent.kind = "num"
    /\ result.metrics.sharpe_ratio = Marker

\* the rows of the frame that are neither an unparsable NAV nor an unparsable date
ParsableRows(rows) == SelectSeq(rows, LAMBDA r : r.nav.txt # "bad" /\ r.date.ok)

\* C6 (as claimed): when some rows of the mutual-fund frame have an unparsable
\* NAV string or an unparsable date string (and some do not), _get_mf_navs
\* returns the series of the other rows, and the analysis does not fail on a
\* date.
C6_AsClaimed ==
    (/\ pc \in {"gate", "metrics", "assemble", "except", "returned"}
     /\ fetches = <<"mftool">>
     /\ raw.kind = "frame"
     /\ ParsableRows(raw.rows) # raw.rows
     /\ ParsableRows(raw.rows) # <<>>) =>
        /\ prices = Some(SortIndex(ToPoints(DropNa(ParsableRows(raw.rows)))))
        /\ pending # "ValueError"

-----------------------------------------------------------------------------
(* Direct calls of _calculate_cagr on series of finite non-negative values *)

CagrShapes == {"flat", "rise", "ramp"}

CagrLens ==
    (0..MaxShort) \cup {5, 300}
    \cup {n \in 0..((MaxYears + 1) * TRADING_DAYS) :
            \E y \in 1..MaxYears : \E d \in 0..MaxSlack :
                n = y * TRADING_DAYS + d \/ n = y * TRADING_DAYS - d}

\* indices where a zero is placed: none, the first point, the last point, and
\* the first point of each window of years*252 points
CagrSpots(n) ==
    {0} \cup (({1, n} \cup {n - y * TRADING_DAYS + 1 : y \in 1..MaxYears}) \cap (1..n))

InitCagr ==
    /\ CallIdle
    /\ DrawdownOff
    /\ TavilyOff
    /\ c_pc = "called"
    /\ \E n \in CagrLens : \E shape \in CagrShapes : \E spot \in CagrSpots(n) :
          c_prices = GenValues(n, shape, spot, 0)
    /\ c_years \in 1..MaxYears
    /\ c_result = RNone

\* the call returns (or raises)
CagrReturn ==
    /\ c_pc = "called"
    /\ c_result' = _calculate_cagr(Some(c_prices), c_years)
    /\ c_pc' = "returned"
    /\ UNCHANGED <<c_prices, c_years>>
    /\ UNCHANGED <<callVars, drawdownVars, tavilyVars>>

NextCagr == CagrReturn

SpecCagr == InitCagr /\ [][NextCagr]_vars

-----------------------------------------------------------------------------
(* Properties of _calculate_cagr (checked under SpecCagr) *)

CLen == Len(c_prices)

\* N = years * 252
CWindow == c_years * TRADING_DAYS

\* index of the first retained value: 1 when the series is shorter than N,
\* else the first of the last N points
CFirstRetained == IF CLen < CWindow THEN 1 ELSE CLen - CWindow + 1

\* effective years as a fraction <<numerator, denominator>>
CEffYears == IF CLen < CWindow THEN <<CLen, TRADING_DAYS>> ELSE <<c_years, 1>>

\* the 300-point series of the end-to-end scenario, with horizon 1
CExample == c_prices = GenValues(300, "ramp", 0, 0) /\ c_years = 1

C10_AsClaimed ==
    (c_pc = "returned" /\ (CLen < 2 \/ c_prices[1] <= 0)) => c_result = RNone

\* C10 (amended): for every series with fewer than 2 points or whose first
\* RETAINED value (S[0] when len < years*252, else the first of the last
\* years*252 points) is <= 0, the result is None and no exception is raised.
C10_NoneOnBadStart ==
    (c_pc = "returned" /\ (CLen < 2 \/ c_prices[CFirstRetained] <= 0)) =>
        c_result = RNone

\* S[0] > 0 but the first retained value is 0: None
C10_Witness ==
    /\ c_pc = "returned"
    /\ CLen >= 2 /\ CLen >= CWindow
    /\ c_prices[1] > 0 /\ c_prices[CFirstRetained] = 0
    /\ c_result = RNone

-----------------------------------------------------------------------------
(* Direct calls of _calculate_max_drawdown on series of finite non-negative values *)

RECURSIVE SeqsOfLen(_, _)
SeqsOfLen(n, A) ==
    IF n = 0 THEN {<<>>}
    ELSE {Append(s, a) : s \in SeqsOfLen(n - 1, A), a \in A}

DrawdownInputs == UNION {SeqsOfLen(n, 0..MaxPrice) : n \in 0..MaxDdLen}

InitDrawdown ==
    /\ CallIdle
    /\ CagrOff
    /\ TavilyOff
    /\ d_pc = "called"
    /\ d_prices \in DrawdownInputs
    /\ d_result = RNone

\* the call returns
DrawdownReturn ==
    /\ d_pc = "called"
    /\ d_result' = _calculate_max_drawdown(Some(d_prices))
    /\ d_pc' = "returned"
    /\ UNCHANGED d_prices
    /\ UNCHANGED <<callVars, cagrVars, tavilyVars>>

NextDrawdown == DrawdownReturn

SpecDrawdown == InitDrawdown /\ [][NextDrawdown]_vars

NonDecreasing(S) == \A i \in 1..(Len(S) - 1) : S[i] <= S[i + 1]

\* C11 (as claimed): for every series of at least 2 finite non-negative values
\* _calculate_max_drawdown returns a number <= 0, and exactly 0 when the
\* series is monotonically non-decreasing - also when its running maximum is 0.
C11_AsClaimed ==
    (d_pc = "returned" /\ Len(d_prices) >= 2) =>
        /\ d_result.kind = "num"
        /\ d_result.val[1] <= 0
        /\ NonDecreasing(d_prices) => d_result = RNum(<<0>>)

-----------------------------------------------------------------------------
(* Further properties of analyze_investment *)

\* the normalized series is a TimeSeries: every date parsed, every value is
\* a non-negative number
WellFormed(series) ==
    \A i \in 1..Len(series) : series[i].ts.ok /\ series[i].val >= 0

C12_ZeroStdReached ==
    /\ pc = "returned"
    /\ ~prices.isNone /\ Len(prices.v) = MIN_RETURNS_POINTS
    /\ DOMAIN result = ReportKeys
    /\ result.metrics.annualized_volatility_percent = RNum(<<0>>)
    /\ result.metrics.sharpe_ratio = Marker

\* the texts str(e) can be in the analysis-failed message
ExcTexts == {ExcText(exc) : exc \in {"TypeError", "ValueError"}}

\* C13 (as claimed): every error report returned by analyze_investment, for
\* each failure cause, has a message that names the requested identifier and
\* the suspected cause.
C13_AsClaimed ==
    (pc = "returned" /\ IsErrorReport(result)) =>
        /\ Mentions(result.error, identifier)
        /\ StatesCause(result.error)

\* C13: every error report returned by analyze_investment has a message that
\* states a cause.  The insufficient-data message (absent or short series,
\* which includes a fetch that raised) and the analysis-failed message name
\* the requested identifier; the invalid-type message names the rejected
\* investment_type and the two accepted values, and not the identifier.
C13_ErrorMessages ==
    (pc = "returned" /\ IsErrorReport(result)) =>
        /\ StatesCause(result.error)
        /\ IF investment_type \in {"stock", "mutual_fund"}
           THEN /\ Mentions(result.error, identifier)
                /\ \/ /\ result.error = InsufficientMsg(identifier)
                      /\ ~GatePassed
                   \/ /\ \E e \in ExcTexts :
                            result.error = AnalysisFailedMsg(identifier, e)
                      /\ GatePassed
           ELSE /\ result.error = InvalidTypeMsg(investment_type)
                /\ Mentions(result.error, investment_type)
                /\ ~Mentions(result.error, identifier)

\* the three messages, each returned by some call: here the invalid-type
\* message of a call for RELIANCE.NS
C13_Witness ==
    /\ pc = "returned"
    /\ identifier = "RELIANCE.NS"
    /\ investment_type = "crypto"
    /\ IsErrorReport(result)
    /\ ~Mentions(result.error, identifier)

\* the analysis-failed message of a call for RELIANCE.NS
C13_AnalysisFailedReached ==
    /\ pc = "returned"
    /\ identifier = "RELIANCE.NS"
    /\ IsErrorReport(result)
    /\ result.error[1] = "Analysis failed for '"

\* the normalized series is there and has 1..9 points
ShortSeries == ~prices.isNone /\ Len(prices.v) > 0 /\ Len(prices.v) < MIN_POINTS

\* C14 (as claimed): when the normalized series is non-empty but has fewer
\* than 10 points, the error report returned by analyze_investment states the
\* number of points that were found.
C14_AsClaimed ==
    (pc = "returned" /\ ShortSeries) =>
        /\ IsErrorReport(result)
        /\ Mentions(result.error, ToString(Len(prices.v)))

\* C14: when the normalized series is non-empty but has fewer than 10 points,
\* analyze_investment returns an error report that names the identifier and
\* asks to verify it; the message is the one returned when there is no series
\* at all and does not state the number of points found.
C14_ShortSeriesMessage ==
    (pc = "returned" /\ fetches # <<>> /\ (prices.isNone \/ ShortSeries)) =>
        /\ IsErrorReport(result)
        /\ result.error = <<"Insufficient historical data for '", identifier,
                            "'. Verify the identifier and try again.">>
        /\ ShortSeries => ~Mentions(result.error, ToString(Len(prices.v)))

\* a 3-point series of scheme 119597: the error report without the count
C14_Witness ==
    /\ pc = "returned"
    /\ identifier = "119597"
    /\ ~prices.isNone /\ Len(prices.v) = 3
    /\ IsErrorReport(result)
    /\ ~Mentions(result.error, "3")

\* the three horizons of the report's CAGR slots
Horizons == {1, 3, 5}

\* the report's CAGR slot for a horizon
CagrSlot(r, years) ==
    CASE years = 1 -> r.metrics.cagr_1y_percent
      [] years = 3 -> r.metrics.cagr_3y_percent
      [] years = 5 -> r.metrics.cagr_5y_percent

\* C15: in every success report built from a series of n points, the CAGR
\* slots of the horizons whose window years*252 exceeds n are equal to each
\* other, each being the CAGR of the whole series over n/252 years (or the
\* marker when the first value is not positive); so cagr_1y = cagr_3y =
\* cagr_5y for 10 <= n < 252 and cagr_3y = cagr_5y for n < 756.
C15_FallbackSlotsEqual ==
    (pc = "returned" /\ DOMAIN result = ReportKeys) =>
        LET n == result.data_points
            S == Values(prices.v)
            whole == IF S[1] <= 0 THEN Marker
                     ELSE CagrValue(S[n], S[1], n, TRADING_DAYS)
        IN  /\ n = Len(S) /\ n >= MIN_POINTS
            /\ \A y \in Horizons :
                  y * TRADING_DAYS > n => CagrSlot(result, y) = whole
            /\ n < TRADING_DAYS =>
                  /\ result.metrics.cagr_1y_percent = result.metrics.cagr_3y_percent
                  /\ result.metrics.cagr_3y_percent = result.metrics.cagr_5y_percent
            /\ n < 3 * TRADING_DAYS =>
                  result.metrics.cagr_3y_percent = result.metrics.cagr_5y_percent

\* a report of a 253-point series: the 3-year and the 5-year slot hold the
\* same number, the 1-year slot (a window of the last 252 points) another one
C15_Witness ==
    /\ pc = "returned"
    /\ DOMAIN result = ReportKeys
    /\ result.data_points = TRADING_DAYS + 1
    /\ result.metrics.cagr_3y_percent.kind = "num"
    /\ result.metrics.cagr_3y_percent = result.metrics.cagr_5y_percent
    /\ result.metrics.cagr_1y_percent # result.metrics.cagr_3y_percent

\* a report of a 20-point series: the three slots hold the same number
C15_AllEqualReached ==
    /\ pc = "returned"
    /\ DOMAIN result = ReportKeys
    /\ result.data_points = 20
    /\ result.metrics.cagr_1y_percent.kind = "num"
    /\ result.metrics.cagr_1y_percent = result.metrics.cagr_3y_percent
    /\ result.metrics.cagr_3y_percent = result.metrics.cagr_5y_percent

\* a report of a 757-point series: the 3-year and the 5-year slot differ
C15_LongSeriesReached ==
    /\ pc = "returned"
    /\ DOMAIN result = ReportKeys
    /\ result.data_points = 3 * TRADING_DAYS + 1
    /\ result.metrics.cagr_3y_percent # result.metrics.cagr_5y_percent

-----------------------------------------------------------------------------
(* _get_tavily: the lazily created Tavily client of agent.py and mf_tools.py, *)
(* called from several threads                                                *)

\* process start (after the imports): TAVILY_API_KEY is set or not
InitTavily ==
    /\ CallIdle
    /\ CagrOff
    /\ DrawdownOff
    /\ TavilyFresh
    /\ t_env \in BOOLEAN
    /\ t_pc = [th \in Threads |-> "idle"]

\* threads of module m that have found the handle None and have not yet
\* assigned it (or raised)
Initialising(m) ==
    {th \in Threads : t_mod[th] = m /\ t_pc[th] \in {"getenv", "construct", "store"}}

\* the environment variable is set or removed (os.environ, outside _get_tavily)
SetEnv ==
    /\ t_env' = ~t_env
    /\ UNCHANGED <<t_client, t_made, t_pc, t_mod, t_obj, t_ret, t_overlap>>
    /\ UNCHANGED <<callVars, cagrVars, drawdownVars>>

\* a thread calls module m's _get_tavily (search_web, search_financial_news)
TavilyCall(th, m) ==
    /\ t_pc[th] \in {"idle", "done", "raised"}
    /\ t_pc' = [t_pc EXCEPT ![th] = "check"]
    /\ t_mod' = [t_mod EXCEPT ![th] = m]
    /\ t_ret' = [t_ret EXCEPT ![th] = NoClient]
    /\ t_obj' = [t_obj EXCEPT ![th] = NoClient]
    /\ UNCHANGED <<t_env, t_client, t_made, t_overlap>>
    /\ UNCHANGED <<callVars, cagrVars, drawdownVars>>

\* variant: the handle is not looked at, every call initialises
TavilyCheckNoReuse(th) ==
    /\ t_pc[th] = "check"
    /\ t_pc' = [t_pc EXCEPT ![th] = "getenv"]
    /\ t_overlap' = [t_overlap EXCEPT
                        ![t_mod[th]] = @ \/ Initialising(t_mod[th]) # {}]
    /\ UNCHANGED <<t_env, t_client, t_made, t_mod, t_obj, t_ret>>
    /\ UNCHANGED <<callVars, cagrVars, drawdownVars>>

\* if _tavily_client is None:
TavilyCheck(th) ==
    /\ t_pc[th] = "check"
    /\ IF t_client[t_mod[th]] = NoClient
       THEN /\ t_pc' = [t_pc EXCEPT ![th] = "getenv"]
            /\ t_overlap' = [t_overlap EXCEPT
                                ![t_mod[th]] = @ \/ Initialising(t_mod[th]) # {}]
       ELSE /\ t_pc' = [t_pc EXCEPT ![th] = "return"]
            /\ t_overlap' = t_overlap
    /\ UNCHANGED <<t_env, t_client, t_made, t_mod, t_obj, t_ret>>
    /\ UNCHANGED <<callVars, cagrVars, drawdownVars>>

\* api_key = os.getenv("TAVILY_API_KEY"); if not api_key: raise RuntimeError
TavilyGetenv(th) ==
    /\ t_pc[th] = "getenv"
    /\ IF t_env
       THEN /\ t_pc' = [t_pc EXCEPT ![th] = "construct"]
            /\ t_ret' = t_ret
       ELSE /\ t_pc' = [t_pc EXCEPT ![th] = "raised"]
            /\ t_ret' = [t_ret EXCEPT ![th] = Raised]
    /\ UNCHANGED <<t_env, t_client, t_made, t_mod, t_obj, t_overlap>>
    /\ UNCHANGED <<callVars, cagrVars, drawdownVars>>

\* TavilyClient(api_key=api_key): a new object
TavilyConstruct(th) ==
    /\ t_pc[th] = "construct"
    /\ t_made["agent"] + t_made["mf_tools"] < MaxClients
    /\ t_made' = [t_made EXCEPT ![t_mod[th]] = @ + 1]
    /\ t_obj' = [t_obj EXCEPT ![th] = Client(t_mod[th], t_made[t_mod[th]] + 1)]
    /\ t_pc' = [t_pc EXCEPT ![th] = "store"]
    /\ UNCHANGED <<t_env, t_client, t_mod, t_ret, t_overlap>>
    /\ UNCHANGED <<callVars, cagrVars, drawdownVars>>

\* _tavily_client = <the new object>
TavilyStore(th) ==
    /\ t_pc[th] = "store"
    /\ t_client' = [t_client EXCEPT ![t_mod[th]] = t_obj[th]]
    /\ t_obj' = [t_obj EXCEPT ![th] = NoClient]
    /\ t_pc' = [t_pc EXCEPT ![th] = "return"]
    /\ UNCHANGED <<t_env, t_made, t_mod, t_ret, t_overlap>>
    /\ UNCHANGED <<callVars, cagrVars, drawdownVars>>

\* return _tavily_client
TavilyReturn(th) ==
    /\ t_pc[th] = "return"
    /\ t_ret' = [t_ret EXCEPT ![th] = t_client[t_mod[th]]]
    /\ t_pc' = [t_pc EXCEPT ![th] = "done"]
    /\ UNCHANGED <<t_env, t_client, t_made, t_mod, t_obj, t_overlap>>
    /\ UNCHANGED <<callVars, cagrVars, drawdownVars>>

NextTavily ==
    \/ SetEnv
    \/ \E th \in Threads, m \in Modules : TavilyCall(th, m)
    \/ \E th \in Threads : TavilyCheck(th)
    \/ \E th \in Threads : TavilyGetenv(th)
    \/ \E th \in Threads : TavilyConstruct(th)
    \/ \E th \in Threads : TavilyStore(th)
    \/ \E th \in Threads : TavilyReturn(th)

SpecTavily == InitTavily /\ [][NextTavily]_vars

\* the calls of module m that have returned a client
Returned(m) ==
    {th \in Threads : t_mod[th] = m /\ t_pc[th] = "done"}

\* C16 (as claimed): under any interleaving of concurrent first calls the
\* client handle is constructed at most once and every call returns that
\* same handle.
C16_AsClaimed ==
    \A m \in Modules :
        /\ t_made[m] <= 1
        /\ \A th1, th2 \in Returned(m) : t_ret[th1] = t_ret[th2]

\* what holds in every state of _get_tavily
TavilyInv ==
    \A m \in Modules :
        \* as long as no two first calls have overlapped: one client at most,
        \* and every call that has returned returned that client
        /\ ~t_overlap[m] =>
              /\ t_made[m] <= 1
              /\ \A th \in Returned(m) : t_ret[th] = Client(m, 1)
        \* in any case: one client at most per caller that found the handle
        \* unset before the first assignment
        /\ t_made[m] <= MaxThreads
        /\ t_client[m] = NoClient => t_made[m] = Cardinality({th \in Threads :
                                          t_mod[th] = m /\ t_pc[th] = "store"})
        /\ t_client[m] # NoClient =>
              /\ t_client[m].mod = m
              /\ t_client[m].n \in 1..t_made[m]
        \* a call never returns None: it returns a client its module constructed
        /\ \A th \in Returned(m) :
              /\ t_ret[th].mod = m
              /\ t_ret[th].n \in 1..t_made[m]
        \* a call that is about to return finds the handle set
        /\ \A th \in Threads :
              (t_mod[th] = m /\ t_pc[th] = "return") => t_client[m] # NoClient

\* what holds of every step of _get_tavily
TavilyStep ==
    \A th \in Threads :
        LET m == t_mod[th]
        IN  \* the test of the handle: a set handle is reused
            /\ (t_pc[th] = "check" /\ t_pc'[th] # "check") =>
                  IF t_client[m] = NoClient
                  THEN t_pc'[th] = "getenv"
                  ELSE t_pc'[th] = "return" /\ t_made' = t_made
            \* the key is read at call time: unset, the call raises and
            \* changes nothing; set, the call goes on to construct a client
            /\ (t_pc[th] = "getenv" /\ t_pc'[th] # "getenv") =>
                  IF t_env
                  THEN t_pc'[th] = "construct"
                  ELSE /\ t_pc'[th] = "raised"
                       /\ t_ret'[th] = Raised
                       /\ t_client' = t_client
                       /\ t_made' = t_made
            \* the value returned is the handle as it is at the return
            /\ (t_pc[th] = "return" /\ t_pc'[th] = "done") =>
                  t_ret'[th] = t_client[m]
            \* a handle that is set is never unset, and it changes only
            \* while a first call is in progress
            /\ t_client[m] # NoClient => t_client'[m] # NoClient
            /\ Initialising(m) = {} => t_client'[m] = t_client[m]

\* C16: each module (agent.py, mf_tools.py) has its own handle.  As long as
\* no two first calls of a module overlap, the module constructs at most one
\* client and every call returns it; first calls that overlap may each
\* construct a client (at most one per caller), the last assignment wins,
\* and every call still returns a client of its module.  A call made while
\* TAVILY_API_KEY is unset (and the handle is unset) raises RuntimeError and
\* changes nothing, and a call that finds the handle unset and the key set
\* constructs a client, whatever calls have raised before.
C16_LazyHandle == []TavilyInv /\ [][TavilyStep]_vars

\* thread 1 called while the key was unset and raised; thread 2 called the
\* same module later, with the key set, and was returned the first client
C16_Witness ==
    /\ t_pc[1] = "raised" /\ t_ret[1] = Raised
    /\ t_pc[2] = "done" /\ t_mod[2] = t_mod[1]
    /\ t_ret[2] = Client(t_mod[1], 1)
    /\ t_client[t_mod[1]] = Client(t_mod[1], 1)
    /\ ~t_overlap[t_mod[1]]

\* two first calls of agent.py overlapped: two clients were constructed and
\* the two calls returned different ones
C16_RaceReached ==
    /\ t_overlap["agent"]
    /\ t_made["agent"] = 2
    /\ Returned("agent") = {1, 2}
    /\ t_ret[1] # t_ret[2]

=============================================================================
